---------------------------- MODULE Spec2Model ----------------------------
(***************************************************************************)
(* Model of the system monitor in src/main.cpp: the sampling loop of main  *)
(* (aggregate CPU delta, memory utilisation, per-process CPU delta against *)
(* the prevProcTimes history, pruning, ranking and display).               *)
(*                                                                         *)
(* Conventions                                                             *)
(*  - `ull' values are kept modulo Modulus = 2^UllBits.  TLC's integers    *)
(*    are 32 bit wide, so the 64 bit word of the program is scaled down to *)
(*    UllBits bits; every unsigned operation of the source is reduced      *)
(*    modulo Modulus exactly where the source's arithmetic is unsigned.    *)
(*  - a `double' percentage is kept as the exact fraction [num, den]       *)
(*    (den > 0) of the two converted operands; fractions are compared by   *)
(*    cross multiplication.                                                *)
(*  - the content of /proc at each read is an input of the step that reads *)
(*    it, drawn from a bounded set.                                        *)
(*  - the locals of the loop body hold their defaults outside the body:   *)
(*    they leave scope when an iteration ends.                             *)
(*  - the uptime line and the text layout of the frame are left out; the   *)
(*    frame is the operator Frame of the state at the display step.        *)
(*  - percentages are exact here; the program's doubles are exact as well  *)
(*    for counters below 2^53 / 100.                                       *)
(***************************************************************************)
EXTENDS Integers, Sequences, FiniteSets

---------------------------------------------------------------------------
(* Bounds of the model *)

UllBits == 8
MaxUser == 1
MaxIdle == 2
MaxMemKb == 2
MaxPid == 2
MaxTicks == 2
MaxRssPages == 1
MaxKeys == 1

(* Program constants *)

PageKb == 4
RowBudget == 20
NameWidth == 23
NameKeep == 20
InitialRefresh == 2

Modulus == 2 ^ UllBits

---------------------------------------------------------------------------
(* Arithmetic helpers *)

Ull(x) == x % Modulus

Pct(n, d) == [num |-> n, den |-> d]

PctZero == Pct(0, 1)

PctEq(a, b) == a.num * b.den = b.num * a.den

PctLess(a, b) == a.num * b.den < b.num * a.den

Range(s) == {s[i] : i \in 1..Len(s)}

Min(a, b) == IF a < b THEN a ELSE b

---------------------------------------------------------------------------
(* struct CpuSample *)

ZeroCpu ==
  [user |-> 0, nice |-> 0, system |-> 0, idle |-> 0, iowait |-> 0,
   irq |-> 0, softirq |-> 0, steal |-> 0, guest |-> 0, guest_nice |-> 0]

Total(s) ==
  Ull(s.user + s.nice + s.system + s.idle + s.iowait
      + s.irq + s.softirq + s.steal + s.guest + s.guest_nice)

IdleAll(s) == Ull(s.idle + s.iowait)

(* struct MemInfo *)

ZeroMem ==
  [memTotal |-> 0, memFree |-> 0, buffers |-> 0, cached |-> 0, available |-> 0]

(* struct ProcessInfo *)

ZeroProc ==
  [pid |-> 0, name |-> <<>>, cpuPercent |-> PctZero, totalTime |-> 0, rss_kb |-> 0]

---------------------------------------------------------------------------
(* Inputs: what /proc and the terminal can hold at a read *)

CpuWide ==
  {[ZeroCpu EXCEPT !.user = u, !.idle = i] : u \in 0..MaxUser, i \in 0..MaxIdle}

CpuNarrow == {ZeroCpu, [ZeroCpu EXCEPT !.user = 1]}

MemWide ==
  {[ZeroMem EXCEPT !.memTotal = t, !.available = a] :
     t \in 0..MaxMemKb, a \in 0..(MaxMemKb + 1)}

MemNarrow == {[ZeroMem EXCEPT !.memTotal = 2, !.available = 1]}

Pids == 1..MaxPid

(* /proc lists every live pid once, in increasing order *)
PidLists ==
  {s \in UNION {[1..n -> Pids] : n \in 0..MaxPid} :
     \A i, j \in 1..Len(s) : i < j => s[i] < s[j]}

PidListsNarrow == {s \in PidLists : Len(s) <= 1}

Comm == <<"s", "h">>

(* /proc/[pid]/stat read and parsed: readProcPidStat returns true *)
StatOk ==
  {rec \in
     {[kind |-> "stat", utime |-> u, stime |-> s, rss_pages |-> r, comm |-> Comm,
       vmRss |-> 0] : u \in 0..MaxTicks, s \in 0..MaxTicks, r \in 0..MaxRssPages} :
     rec.utime + rec.stime <= MaxTicks}

(* readProcPidStat returns false (file gone, empty, no parentheses, too   *)
(* few fields, a field that is no number); comm and VmRSS are what the    *)
(* fallback files give: nothing when the process is gone                  *)
StatFailed ==
  {rec \in
     {[kind |-> "fallback", utime |-> 0, stime |-> 0, rss_pages |-> 0, comm |-> c,
       vmRss |-> v] : c \in {<<>>, Comm}, v \in 0..MaxRssPages} :
     rec.comm = <<>> => rec.vmRss = 0}

(* the line ends with its last ")": line.substr(r + 2) throws out_of_range *)
StatThrows ==
  {[kind |-> "throw", utime |-> 0, stime |-> 0, rss_pages |-> 0, comm |-> <<>>,
    vmRss |-> 0]}

StatWide == StatOk \cup StatFailed \cup StatThrows

StatNarrow ==
  {r \in StatWide : r.utime = 0 /\ r.rss_pages = 0 /\ r.comm = Comm /\ r.vmRss = 0}
    \cup StatThrows

KeysWide == {"q", "+", "-"}

KeysNarrow == {"q"}

---------------------------------------------------------------------------
VARIABLES
  pc,               \* position of main in its loop
  refresh_seconds,  \* const int refresh_seconds
  prevCpu, prevTotal, prevIdleAll,
  prevProcTimes,    \* map<int, ull>: a function on the pids it holds
  curCpu, curTotal, curIdleAll, totalDiff, idleDiff, cpuUsagePercent,
  mem, usedMem, memPercent,
  pids, procs,
  idx,              \* position of the range-for over pids
  pi,               \* ProcessInfo pi of the loop body
  statOk,           \* what readProcPidStat returned for pi.pid
  toRemove,         \* vector<int> toRemove, as a set
  stdinKeys         \* keystrokes typed at the terminal, unread

prevVars == <<prevCpu, prevTotal, prevIdleAll>>
cpuVars == <<curCpu, curTotal, curIdleAll, totalDiff, idleDiff, cpuUsagePercent>>
memVars == <<mem, usedMem, memPercent>>
procVars == <<pids, procs, idx, pi, statOk, toRemove>>

vars ==
  <<pc, refresh_seconds, prevVars, prevProcTimes, cpuVars, memVars, procVars,
    stdinKeys>>

---------------------------------------------------------------------------
(* main, before the loop *)

InitWith(cpuIn) ==
  /\ pc = "Sleep"
  /\ refresh_seconds = InitialRefresh
  /\ prevCpu \in cpuIn
  /\ prevTotal = Total(prevCpu)
  /\ prevIdleAll = IdleAll(prevCpu)
  /\ prevProcTimes = <<>>
  /\ curCpu = ZeroCpu /\ curTotal = 0 /\ curIdleAll = 0
  /\ totalDiff = 0 /\ idleDiff = 0 /\ cpuUsagePercent = PctZero
  /\ mem = ZeroMem /\ usedMem = 0 /\ memPercent = PctZero
  /\ pids = <<>> /\ procs = <<>> /\ idx = 0 /\ pi = ZeroProc /\ statOk = FALSE
  /\ toRemove = {}
  /\ stdinKeys = <<>>

---------------------------------------------------------------------------
(* Delta computations of the loop body *)

Diff(cur, prev) == IF cur >= prev THEN Ull(cur - prev) ELSE 0

CpuUsage(td, id) == IF td > 0 THEN Pct(Ull(td - id) * 100, td) ELSE PctZero

(* MemUsed without the guard against available > memTotal *)
MemUsed_NoClamp(m) ==
  IF m.memTotal > 0 THEN Ull(m.memTotal - m.available) ELSE 0

MemUsed(m) ==
  IF m.memTotal > 0
    THEN (IF m.memTotal > m.available THEN Ull(m.memTotal - m.available) ELSE 0)
    ELSE 0

MemPercent(m) ==
  IF m.memTotal > 0 THEN Pct(MemUsed(m) * 100, m.memTotal) ELSE PctZero

PrevTime(hist, pid) == IF pid \in DOMAIN hist THEN hist[pid] ELSE 0

ProcPct(diffProc, td) == IF td > 0 THEN Pct(diffProc * 100, td) ELSE PctZero

(* Put that inserts a new pid but leaves an existing entry as it is *)
Put_InsertOnly(hist, pid, t) ==
  [p \in (DOMAIN hist) \cup {pid} |-> IF p \in DOMAIN hist THEN hist[p] ELSE t]

Put(hist, pid, t) ==
  [p \in (DOMAIN hist) \cup {pid} |-> IF p = pid THEN t ELSE hist[p]]

(* Erase that erases nothing *)
Erase_Nothing(hist, gone) == hist

Erase(hist, gone) == [p \in (DOMAIN hist) \ gone |-> hist[p]]

(* readProcess: the record of /proc/[pid]/stat, or the fallback files *)

readProcess(pid, rec) ==
  IF rec.kind = "stat"
    THEN [pid |-> pid, name |-> rec.comm, cpuPercent |-> PctZero,
          totalTime |-> Ull(rec.utime + rec.stime),
          rss_kb |-> Ull(rec.rss_pages * PageKb)]
    ELSE [pid |-> pid, name |-> rec.comm, cpuPercent |-> PctZero,
          totalTime |-> 0, rss_kb |-> rec.vmRss]

(* the comparator handed to std::sort, and what std::sort may return: any *)
(* permutation of its input that the comparator leaves in order           *)

(* Comp with the tie on CPU% broken by the smaller RSS *)
Comp_RssAscending(a, b) ==
  IF ~PctEq(a.cpuPercent, b.cpuPercent)
    THEN PctLess(b.cpuPercent, a.cpuPercent)
    ELSE a.rss_kb < b.rss_kb

Comp(a, b) ==
  IF ~PctEq(a.cpuPercent, b.cpuPercent)
    THEN PctLess(b.cpuPercent, a.cpuPercent)
    ELSE a.rss_kb > b.rss_kb

IsSorted(s) == \A i, j \in 1..Len(s) : i < j => ~Comp(s[j], s[i])

Permutations(s) ==
  {[i \in 1..Len(s) |-> s[f[i]]] :
     f \in {g \in [1..Len(s) -> 1..Len(s)] :
              \A i, j \in 1..Len(s) : i # j => g[i] # g[j]}}

SortOutcomes(s) == {q \in Permutations(s) : IsSorted(q)}

(* the frame written by the display code *)

Truncate(name) ==
  IF Len(name) > NameWidth
    THEN SubSeq(name, 1, NameKeep) \o <<".", ".", ".">>
    ELSE name

Rows(ps) ==
  [i \in 1..Min(Len(ps), RowBudget) |->
     [pid |-> ps[i].pid, name |-> Truncate(ps[i].name),
      cpuPercent |-> ps[i].cpuPercent, rss_kb |-> ps[i].rss_kb]]

Frame ==
  [cpu |-> cpuUsagePercent, usedMb |-> usedMem \div 1024,
   totalMb |-> mem.memTotal \div 1024, memPct |-> memPercent,
   refresh |-> refresh_seconds, rows |-> Rows(procs)]

---------------------------------------------------------------------------
(* The loop body, one action per step *)

(* Sleep that lengthens the interval with every pass *)
Sleep_Drift ==
  /\ pc = "Sleep"
  /\ pc' = "SampleCpu"
  /\ refresh_seconds' = refresh_seconds + 1
  /\ UNCHANGED <<prevVars, prevProcTimes, cpuVars, memVars, procVars, stdinKeys>>

Sleep ==
  /\ pc = "Sleep"
  /\ pc' = "SampleCpu"
  /\ UNCHANGED <<refresh_seconds, prevVars, prevProcTimes, cpuVars, memVars,
                 procVars, stdinKeys>>

SampleCpu(cpuIn) ==
  /\ pc = "SampleCpu"
  /\ \E s \in cpuIn :
       /\ curCpu' = s
       /\ curTotal' = Total(s)
       /\ curIdleAll' = IdleAll(s)
  /\ totalDiff' = Diff(curTotal', prevTotal)
  /\ idleDiff' = Diff(curIdleAll', prevIdleAll)
  /\ cpuUsagePercent' = CpuUsage(totalDiff', idleDiff')
  /\ pc' = "SampleMem"
  /\ UNCHANGED <<refresh_seconds, prevVars, prevProcTimes, memVars, procVars,
                 stdinKeys>>

SampleMem(memIn) ==
  /\ pc = "SampleMem"
  /\ mem' \in memIn
  /\ usedMem' = MemUsed(mem')
  /\ memPercent' = MemPercent(mem')
  /\ pc' = "List"
  /\ UNCHANGED <<refresh_seconds, prevVars, prevProcTimes, cpuVars, procVars,
                 stdinKeys>>

ListPids(pidIn) ==
  /\ pc = "List"
  /\ pids' \in pidIn
  /\ procs' = <<>>
  /\ idx' = 1
  /\ pc' = IF Len(pids') = 0 THEN "Prune" ELSE "Read"
  /\ UNCHANGED <<refresh_seconds, prevVars, prevProcTimes, cpuVars, memVars,
                 pi, statOk, toRemove, stdinKeys>>

ReadReturns(statIn) ==
  /\ pc = "Read"
  /\ \E rec \in statIn :
       /\ rec.kind # "throw"
       /\ pi' = readProcess(pids[idx], rec)
       /\ statOk' = (rec.kind = "stat")
  /\ pc' = "Account"
  /\ UNCHANGED <<refresh_seconds, prevVars, prevProcTimes, cpuVars, memVars,
                 pids, procs, idx, toRemove, stdinKeys>>

ReadThrows(statIn) ==
  /\ pc = "Read"
  /\ \E rec \in statIn : rec.kind = "throw"
  /\ pc' = "Aborted"
  /\ UNCHANGED <<refresh_seconds, prevVars, prevProcTimes, cpuVars, memVars,
                 procVars, stdinKeys>>

Account ==
  /\ pc = "Account"
  /\ LET prevTime == PrevTime(prevProcTimes, pi.pid)
         diffProc == Diff(pi.totalTime, prevTime)
         cpuPct == ProcPct(diffProc, totalDiff)
     IN  /\ procs' = Append(procs, [pi EXCEPT !.cpuPercent = cpuPct])
         /\ prevProcTimes' = Put(prevProcTimes, pi.pid, pi.totalTime)
  /\ idx' = idx + 1
  /\ pc' = IF idx = Len(pids) THEN "Prune" ELSE "Read"
  /\ UNCHANGED <<refresh_seconds, prevVars, cpuVars, memVars, pids, pi, statOk,
                 toRemove, stdinKeys>>

Prune ==
  /\ pc = "Prune"
  /\ toRemove' = {p \in DOMAIN prevProcTimes : p \notin Range(pids)}
  /\ prevProcTimes' = Erase(prevProcTimes, toRemove')
  /\ pc' = "Sort"
  /\ UNCHANGED <<refresh_seconds, prevVars, cpuVars, memVars, pids, procs, idx,
                 pi, statOk, stdinKeys>>

Sort ==
  /\ pc = "Sort"
  /\ procs' \in SortOutcomes(procs)
  /\ pc' = "Display"
  /\ UNCHANGED <<refresh_seconds, prevVars, prevProcTimes, cpuVars, memVars,
                 pids, idx, pi, statOk, toRemove, stdinKeys>>

Display ==
  /\ pc = "Display"
  /\ pc' = "Update"
  /\ UNCHANGED <<refresh_seconds, prevVars, prevProcTimes, cpuVars, memVars,
                 procVars, stdinKeys>>

(* UpdatePrev that leaves the loop when a keystroke is pending *)
UpdatePrev_LeaveOnKey ==
  /\ pc = "Update"
  /\ prevCpu' = curCpu
  /\ prevTotal' = curTotal
  /\ prevIdleAll' = curIdleAll
  /\ curCpu' = ZeroCpu /\ curTotal' = 0 /\ curIdleAll' = 0
  /\ totalDiff' = 0 /\ idleDiff' = 0 /\ cpuUsagePercent' = PctZero
  /\ mem' = ZeroMem /\ usedMem' = 0 /\ memPercent' = PctZero
  /\ pids' = <<>> /\ procs' = <<>> /\ idx' = 0 /\ pi' = ZeroProc /\ statOk' = FALSE
  /\ toRemove' = {}
  /\ pc' = IF stdinKeys # <<>> THEN "Terminated" ELSE "Sleep"
  /\ UNCHANGED <<refresh_seconds, prevProcTimes, stdinKeys>>

(* UpdatePrev, but a sample whose total fell below the previous one is *)
(* not taken over as the previous sample                               *)
UpdatePrev_SkipOnReset ==
  /\ pc = "Update"
  /\ prevCpu' = IF curTotal >= prevTotal THEN curCpu ELSE prevCpu
  /\ prevTotal' = IF curTotal >= prevTotal THEN curTotal ELSE prevTotal
  /\ prevIdleAll' = IF curTotal >= prevTotal THEN curIdleAll ELSE prevIdleAll
  /\ curCpu' = ZeroCpu /\ curTotal' = 0 /\ curIdleAll' = 0
  /\ totalDiff' = 0 /\ idleDiff' = 0 /\ cpuUsagePercent' = PctZero
  /\ mem' = ZeroMem /\ usedMem' = 0 /\ memPercent' = PctZero
  /\ pids' = <<>> /\ procs' = <<>> /\ idx' = 0 /\ pi' = ZeroProc /\ statOk' = FALSE
  /\ toRemove' = {}
  /\ pc' = "Sleep"
  /\ UNCHANGED <<refresh_seconds, prevProcTimes, stdinKeys>>

(* the last statements of the body; the body's locals then leave scope *)
UpdatePrev ==
  /\ pc = "Update"
  /\ prevCpu' = curCpu
  /\ prevTotal' = curTotal
  /\ prevIdleAll' = curIdleAll
  /\ curCpu' = ZeroCpu /\ curTotal' = 0 /\ curIdleAll' = 0
  /\ totalDiff' = 0 /\ idleDiff' = 0 /\ cpuUsagePercent' = PctZero
  /\ mem' = ZeroMem /\ usedMem' = 0 /\ memPercent' = PctZero
  /\ pids' = <<>> /\ procs' = <<>> /\ idx' = 0 /\ pi' = ZeroProc /\ statOk' = FALSE
  /\ toRemove' = {}
  /\ pc' = "Sleep"
  /\ UNCHANGED <<refresh_seconds, prevProcTimes, stdinKeys>>

(* a keystroke at the terminal: main never reads std::cin, so it stays *)
KeyPress(keyIn) ==
  /\ pc # "Aborted"
  /\ Len(stdinKeys) < MaxKeys
  /\ \E k \in keyIn : stdinKeys' = Append(stdinKeys, k)
  /\ UNCHANGED <<pc, refresh_seconds, prevVars, prevProcTimes, cpuVars, memVars,
                 procVars>>

Step(cpuIn, memIn, pidIn, statIn, keyIn) ==
  \/ Sleep
  \/ SampleCpu(cpuIn)
  \/ SampleMem(memIn)
  \/ ListPids(pidIn)
  \/ ReadReturns(statIn)
  \/ ReadThrows(statIn)
  \/ Account
  \/ Prune
  \/ Sort
  \/ Display
  \/ UpdatePrev
  \/ KeyPress(keyIn)

Next == Step(CpuNarrow, MemNarrow, PidLists, StatWide, KeysNarrow)

Spec == InitWith(CpuNarrow) /\ [][Next]_vars

NextCpu == Step(CpuWide, MemNarrow, PidListsNarrow, StatNarrow, KeysNarrow)

SpecCpu == InitWith(CpuWide) /\ [][NextCpu]_vars

NextMem == Step(CpuNarrow, MemWide, PidListsNarrow, StatNarrow, KeysNarrow)

SpecMem == InitWith(CpuNarrow) /\ [][NextMem]_vars

NextKeys == Step(CpuNarrow, MemNarrow, PidListsNarrow, StatNarrow, KeysWide)

SpecKeys == InitWith(CpuNarrow) /\ [][NextKeys]_vars

---------------------------------------------------------------------------
(* Properties *)

(* positions at which this cycle's aggregate CPU figures are computed *)
Sampled ==
  {"SampleMem", "List", "Read", "Account", "Prune", "Sort", "Display", "Update",
   "Aborted"}

Max0(x) == IF x > 0 THEN x ELSE 0

(* C1: whenever the current aggregate total is not below the previous      *)
(* one, the aggregate CPU utilisation of the cycle lies in [0,100], and it *)
(* is exactly 0 when the two totals are equal; pairs whose idle total grew *)
(* by more than the total grew are included.                               *)
C1_UtilizationInRange ==
  (pc \in Sampled /\ curTotal >= prevTotal) =>
     /\ 0 <= cpuUsagePercent.num
     /\ cpuUsagePercent.num <= 100 * cpuUsagePercent.den
     /\ (curTotal = prevTotal => cpuUsagePercent.num = 0)

(* C9: the previous sample is the baseline until the first cycle ends and  *)
(* is replaced, at the end of every cycle, by the sample that cycle took   *)
(* (also when that sample's total is below the previous total); it changes *)
(* at no other step; and the deltas of a cycle are those of the cycle's    *)
(* sample against that previous sample, 0 when the total went down.        *)
C9_PrevIsLastSample ==
  /\ [](prevTotal = Total(prevCpu) /\ prevIdleAll = IdleAll(prevCpu))
  /\ [][(pc = "Update" /\ pc' # pc) =>
          (prevCpu' = curCpu /\ prevTotal' = curTotal /\ prevIdleAll' = curIdleAll)]_vars
  /\ [][pc # "Update" => UNCHANGED prevVars]_vars
  /\ [][(pc = "SampleCpu" /\ pc' # pc) =>
          /\ curTotal' = Total(curCpu') /\ curIdleAll' = IdleAll(curCpu')
          /\ totalDiff' = Max0(curTotal' - prevTotal)
          /\ idleDiff' = Max0(curIdleAll' - prevIdleAll)
          /\ (curTotal' < prevTotal => totalDiff' = 0)]_vars
  /\ [][(pc \in Sampled /\ pc # "Update") =>
          UNCHANGED <<curCpu, curTotal, curIdleAll, totalDiff, idleDiff>>]_vars

(* a cycle whose sample has a lower total than the previous sample is at *)
(* its end: a counter reset about to become the previous sample          *)
C9_Witness == pc = "Update" /\ curTotal < prevTotal /\ totalDiff = 0

(* the step of the loop over pids that accounts the process just read *)
AccountStep == pc = "Account" /\ pc' # pc

(* the row that step appends *)
NewRow == procs'[Len(procs')]

(* C5: the memory utilisation of a cycle is 0 when memTotal is 0 and      *)
(* max(0, memTotal - available) * 100 / memTotal otherwise; it lies in     *)
(* [0,100] also when available exceeds memTotal; for the cycle's memTotal  *)
(* no available value that gives at least as much used memory gives a      *)
(* lower percentage; and it is a function of the cycle's counters alone.   *)
C5_MemPercent ==
  LET t == mem.memTotal
      spec(a) == IF t = 0 THEN PctZero ELSE Pct(Max0(t - a) * 100, t)
  IN  /\ memPercent.den > 0
      /\ PctEq(memPercent, spec(mem.available))
      /\ (t = 0 => memPercent.num = 0)
      /\ usedMem = (IF t = 0 THEN 0 ELSE Max0(t - mem.available))
      /\ 0 <= memPercent.num /\ memPercent.num <= 100 * memPercent.den
      /\ \A a \in 0..(MaxMemKb + 1) :
           Max0(t - a) >= Max0(t - mem.available) =>
             ~PctLess(MemPercent([mem EXCEPT !.available = a]), memPercent)

(* memory has been sampled with available above a positive memTotal *)
C5_Witness ==
  pc = "List" /\ mem.memTotal > 0 /\ mem.available > mem.memTotal
    /\ memPercent.num = 0

(* C2: a pid without a history entry when it is accounted gets CPU% 0 in  *)
(* that cycle and its history entry becomes its cumulative time; a pid    *)
(* with an entry gets (cur - history) * 100 / totalDiff.                   *)
C2_FirstSeenZero ==
  [][AccountStep =>
       /\ (pi.pid \notin DOMAIN prevProcTimes =>
             /\ NewRow.cpuPercent.num = 0
             /\ prevProcTimes'[pi.pid] = pi.totalTime)
       /\ ((pi.pid \in DOMAIN prevProcTimes /\ totalDiff > 0
              /\ pi.totalTime >= prevProcTimes[pi.pid]) =>
             PctEq(NewRow.cpuPercent,
                   Pct((pi.totalTime - prevProcTimes[pi.pid]) * 100, totalDiff)))]_vars

(* C3: once a cycle has pruned, the history holds no pid outside the      *)
(* cycle's enumeration and no more entries than pids were enumerated, and  *)
(* the removed keys are exactly the absent ones; the history changes only  *)
(* in the accounting and pruning steps, accounting touches the accounted   *)
(* pid's entry alone, and a pid without an entry is accounted against 0:   *)
(* so a pid absent from one cycle is never accounted later against the     *)
(* value stored before its absence.                                        *)
C3_HistoryPruned ==
  /\ [](pc \in {"Sort", "Display", "Update"} =>
          /\ DOMAIN prevProcTimes \subseteq Range(pids)
          /\ Cardinality(DOMAIN prevProcTimes) <= Len(pids)
          /\ toRemove \cap DOMAIN prevProcTimes = {}
          /\ toRemove \cap Range(pids) = {})
  /\ [][(pc = "Prune" /\ pc' # pc) =>
          /\ DOMAIN prevProcTimes' = DOMAIN prevProcTimes \cap Range(pids)
          /\ \A p \in DOMAIN prevProcTimes' : prevProcTimes'[p] = prevProcTimes[p]]_vars
  /\ [][pc \notin {"Account", "Prune"} => prevProcTimes' = prevProcTimes]_vars
  /\ [][AccountStep =>
          /\ DOMAIN prevProcTimes' = DOMAIN prevProcTimes \cup {pi.pid}
          /\ \A p \in DOMAIN prevProcTimes \ {pi.pid} :
               prevProcTimes'[p] = prevProcTimes[p]
          /\ (pi.pid \notin DOMAIN prevProcTimes =>
                PctEq(NewRow.cpuPercent, ProcPct(pi.totalTime, totalDiff)))]_vars

(* a cycle has pruned an entry while keeping another *)
C3_Witness ==
  pc = "Sort" /\ toRemove # {} /\ DOMAIN prevProcTimes # {}

(* C10: when the loop over the pids is done, the history holds, for every *)
(* enumerated pid, the cumulative time read for it in this cycle, whether  *)
(* it had an entry or not and whether the time rose or fell; the diff used *)
(* for a row is never negative and never above the time read, and is 0     *)
(* when the time read is below the stored one.                             *)
C10_HistoryHoldsCurrent ==
  /\ [](pc \in {"Prune", "Sort", "Display", "Update"} =>
          /\ Len(procs) = Len(pids)
          /\ \A p \in Range(pids) : p \in DOMAIN prevProcTimes
          /\ \A i \in 1..Len(procs) :
               /\ procs[i].pid \in Range(pids)
               /\ prevProcTimes[procs[i].pid] = procs[i].totalTime)
  /\ [][AccountStep =>
          /\ NewRow.pid = pi.pid /\ NewRow.totalTime = pi.totalTime
          /\ prevProcTimes'[pi.pid] = pi.totalTime
          /\ NewRow.cpuPercent.num >= 0 /\ NewRow.cpuPercent.den > 0
          /\ NewRow.cpuPercent.num * Max0(totalDiff)
               <= pi.totalTime * 100 * NewRow.cpuPercent.den
          /\ ((pi.pid \in DOMAIN prevProcTimes
                 /\ pi.totalTime < prevProcTimes[pi.pid]) =>
                NewRow.cpuPercent.num = 0)]_vars

(* a pid read with a cumulative time below its stored one is at the *)
(* accounting step of a cycle in which the aggregate total advanced, *)
(* after another pid of the cycle has been accounted                 *)
C10_Witness ==
  /\ pc = "Account" /\ statOk /\ totalDiff > 0 /\ Len(procs) = 1
  /\ pi.pid \in DOMAIN prevProcTimes
  /\ pi.totalTime < prevProcTimes[pi.pid]
  /\ prevProcTimes[procs[1].pid] = procs[1].totalTime

(* C4: a pid whose record could not be read in a cycle is not in that    *)
(* cycle's process list, and reading never raises an error that ends the  *)
(* loop.                                                                  *)
C4_UnreadableDropped ==
  /\ [][(AccountStep /\ ~statOk) =>
          \A i \in 1..Len(procs') : procs'[i].pid # pi.pid]_vars
  /\ [](pc # "Aborted")

(* two rows with the same sort keys *)
SameKey(a, b) == PctEq(a.cpuPercent, b.cpuPercent) /\ a.rss_kb = b.rss_kb

(* adjacent rows are in descending CPU%, ties in descending RSS *)
Ranked(s) ==
  \A i \in 1..(Len(s) - 1) :
    \/ PctLess(s[i + 1].cpuPercent, s[i].cpuPercent)
    \/ /\ PctEq(s[i].cpuPercent, s[i + 1].cpuPercent)
       /\ s[i].rss_kb >= s[i + 1].rss_kb

(* C6, as claimed: the ranked rows are in descending CPU% with ties in    *)
(* descending RSS, and ranking the ranked rows again returns the very     *)
(* same sequence of rows.                                                 *)
C6_RankedAndIdempotent ==
  pc \in {"Display", "Update"} =>
    /\ Ranked(procs)
    /\ Ranked(Rows(procs))
    /\ \A q \in SortOutcomes(procs) : q = procs

(* C6, amended: the ranked rows are in descending CPU% with ties in       *)
(* descending RSS, the ranked rows are the rows accounted in the cycle,   *)
(* and ranking them again returns rows with the same CPU% and RSS at      *)
(* every position (rows equal in both may change places).                 *)
C6_RankedUpToTies ==
  pc \in {"Display", "Update"} =>
    /\ Ranked(procs)
    /\ Ranked(Rows(procs))
    /\ Len(procs) = Len(pids)
    /\ {procs[i].pid : i \in 1..Len(procs)} = Range(pids)
    /\ \A q \in SortOutcomes(procs) :
         \A i \in 1..Len(procs) : SameKey(q[i], procs[i])

(* two rows that differ in CPU% or RSS have been ranked *)
C6_Witness ==
  pc = "Display" /\ Len(procs) = 2 /\ ~SameKey(procs[1], procs[2])
    /\ PctEq(procs[1].cpuPercent, procs[2].cpuPercent)

Flow ==
  {<<"Sleep", "SampleCpu">>, <<"SampleCpu", "SampleMem">>, <<"SampleMem", "List">>,
   <<"List", "Read">>, <<"List", "Prune">>, <<"Read", "Account">>,
   <<"Read", "Aborted">>, <<"Account", "Read">>, <<"Account", "Prune">>,
   <<"Prune", "Sort">>, <<"Sort", "Display">>, <<"Display", "Update">>,
   <<"Update", "Sleep">>}

=============================================================================
